---- MODULE Spec2Model ----
(***************************************************************************)
(* A model of utils/data-file.c of uftrace: open_data_file/close_data_file *)
(* (the run header, byte and bitfield order, directory and format          *)
(* fallback), the legacy 'task' reader, the 'task.txt' reader and the four *)
(* 'task.txt' appenders.                                                   *)
(***************************************************************************)
EXTENDS Integers, Sequences, FiniteSets, TLC

\* ------------------------------------------------------------------------
\* Program constants (uftrace.h, libmcount/mcount.h, utils/utils.h, elf.h)
\* ------------------------------------------------------------------------
UFTRACE_DIR_NAME == "uftrace.data"
UFTRACE_DIR_OLD_NAME == "ftrace.dir"
UFTRACE_MAGIC_STR == <<70, 116, 114, 97, 99, 101, 33, 0>>  \* "Ftrace!\0"
UFTRACE_MAGIC_LEN == 8
UFTRACE_FILE_VERSION_MIN == 3
UFTRACE_FILE_VERSION == 4
MCOUNT_RSTACK_MAX == 1024
ENOENT == 2
FTRACE_MSG_MAGIC == 64206      \* 0xface
FTRACE_MSG_TID == 3
FTRACE_MSG_FORK_START == 4
FTRACE_MSG_FORK_END == 5
FTRACE_MSG_SESSION == 6
\* sizeof(struct ftrace_msg), ftrace_msg_task, ftrace_msg_sess; char pad[8]
SIZEOF_MSG == 8
SIZEOF_TASK == 16
SIZEOF_SESS == 40
SIZEOF_PAD == 8
SIZEOF_BUF == 1024
RECORD_MAGIC == 5
ELFDATA2LSB == 1
ELFDATA2MSB == 2
\* bit numbers of enum uftrace_feat_bits; the mask is 1 << bit
TASK_SESSION_BIT == 1
KERNEL_BIT == 2
ARGUMENT_BIT == 3
RETVAL_BIT == 4
SYM_REL_ADDR_BIT == 5
MAX_STACK_BIT == 6

\* ------------------------------------------------------------------------
\* Bounds of the model
\* ------------------------------------------------------------------------
\* header versions tried on disk: MIN - VersionSlack .. MAX + VersionSlack
VersionSlack == 1
\* the size of a stdio stream buffer, scaled down to the length of the lines
StdioBufSize == 80
\* the longest executable name, in bytes, of the legacy files tried alone
MaxNameLen == 17

\* ------------------------------------------------------------------------
\* Bytes, byte order and bit fields
\* ------------------------------------------------------------------------
Pow2(n) == 2 ^ n

Reverse(s) == [i \in 1..Len(s) |-> s[Len(s) + 1 - i]]

\* the n bytes of v, least significant first
RECURSIVE LEBytes(_, _)
LEBytes(v, n) == IF n = 0 THEN <<>> ELSE <<v % 256>> \o LEBytes(v \div 256, n - 1)

\* how a machine of byte order e stores the n-byte number v
Encode(v, n, e) == IF e = ELFDATA2LSB THEN LEBytes(v, n) ELSE Reverse(LEBytes(v, n))

RECURSIVE LEValue(_)
LEValue(b) == IF b = <<>> THEN 0 ELSE b[1] + 256 * LEValue(Tail(b))

\* the number a machine of byte order e reads from the bytes b
Value(b, e) == IF e = ELFDATA2LSB THEN LEValue(b) ELSE LEValue(Reverse(b))

\* bswap_16 / bswap_32 / bswap_64 (byteswap.h) on the bytes of the field
bswap_no(b) == b
bswap_16(b) == Reverse(b)
bswap_32(b) == Reverse(b)
bswap_64(b) == Reverse(b)

\* (mask & (1 << bit)) != 0 for the number held in the bytes b on machine e
TestBit(b, bit, e) ==
    LET byte == IF e = ELFDATA2LSB THEN b[(bit \div 8) + 1]
                ELSE b[Len(b) - (bit \div 8)]
    IN  (byte \div Pow2(bit % 8)) % 2 = 1

\* The 64 bits of a small number, bit 0 first (d[1] = RECORD_MAGIC << 3)
Bits64(v) == [i \in 0..63 |-> IF i < 30 THEN (v \div Pow2(i)) % 2 ELSE 0]

\* data.s.magic: the 3-bit field that follows type:2 and more:1 in the second
\* 64-bit word of struct uftrace_record, as the compiler of the running
\* build lays bit fields out: from bit 0 up or from bit 63 down.
RecordMagicField(w, layout) ==
    IF layout = "lsb_first"
    THEN w[3] + 2 * w[4] + 4 * w[5]
    ELSE w[58] + 2 * w[59] + 4 * w[60]

\* ------------------------------------------------------------------------
\* State
\* ------------------------------------------------------------------------
VARIABLES
    host_endian,    \* get_elf_endian() of the running build
    host_bitfield,  \* how the running build's compiler lays out bit fields
    host_long,      \* the bits of a long in the running build
    fs,             \* the data directories, fixed when first looked at
    opts,           \* struct opts: dirname, exename, depth
    handle,         \* struct ftrace_file_handle (without its sessions)
    sessions,       \* struct uftrace_session_link: the session/task registry
    opc,            \* open_data_file / close_data_file: where the call is
    buf,            \* open_data_file: the path of the info file being opened
    again,          \* open_data_file: the retry flag
    result,         \* "running", "ret0", "retm1", "exit" (pr_err), "abort" (assert)
    warned,         \* pr_warn("invalid task file") was printed
    calls,          \* the files fopen()/open() was called on so far, in order
    tpc, targs, tpos, tloc, tret,   \* read_task_txt_file
    lpc, largs, lpos, lloc, lret,   \* read_task_file
    wpc, wcall, wbuf, wpend         \* the write_*_info calls of each writer

buildVars == <<host_endian, host_bitfield, host_long>>
openVars == <<opts, handle, opc, buf, again, warned, calls>>
txtVars == <<tpc, targs, tpos, tloc, tret>>
legacyVars == <<lpc, largs, lpos, lloc, lret>>
writerVars == <<wpc, wcall, wbuf, wpend>>
vars == <<buildVars, fs, sessions, result, openVars, txtVars, legacyVars, writerVars>>

NULL == "NULL"
Endians == {ELFDATA2LSB, ELFDATA2MSB}
BitfieldLayouts == {"lsb_first", "msb_first"}
LongWidths == {32, 64}
Dirs == {UFTRACE_DIR_NAME, UFTRACE_DIR_OLD_NAME, "trace.out"}

\* ------------------------------------------------------------------------
\* The session/task registry (utils/session.c), as the list of what was
\* created, in order
\* ------------------------------------------------------------------------
RB_ROOT == [sessions |-> <<>>, tasks |-> <<>>]

create_task(reg, tmsg, fork, needs_session) ==
    [reg EXCEPT !.tasks = Append(@, [tid |-> tmsg.tid, pid |-> tmsg.pid,
                                     time |-> tmsg.time, fork |-> fork])]

create_session(reg, smsg, dirname, exename, sym_rel_addr) ==
    [reg EXCEPT !.sessions = Append(@, [sid |-> smsg.sid, pid |-> smsg.task.pid,
                                        tid |-> smsg.task.tid,
                                        time |-> smsg.task.time,
                                        namelen |-> smsg.namelen,
                                        exename |-> exename,
                                        dirname |-> dirname,
                                        sym_rel_addr |-> sym_rel_addr,
                                        dlopen |-> <<>>])]

\* the index of the first session with this sid, 0 for NULL
get_session_from_sid(reg, sid) ==
    LET hit == {i \in 1..Len(reg.sessions) : reg.sessions[i].sid = sid}
    IN  IF hit = {} THEN 0 ELSE CHOOSE i \in hit : \A j \in hit : i <= j

session_add_dlopen(reg, s, time, base_addr, libname) ==
    [reg EXCEPT !.sessions[s].dlopen =
        Append(@, [time |-> time, base_addr |-> base_addr, libname |-> libname])]

\* ------------------------------------------------------------------------
\* The info file: what a data directory may hold
\* ------------------------------------------------------------------------
ZeroHeader == [magic |-> <<0, 0, 0, 0, 0, 0, 0, 0>>, version |-> <<0, 0, 0, 0>>,
               endian |-> 0, feat_mask |-> <<0, 0, 0, 0, 0, 0, 0, 0>>,
               info_mask |-> <<0, 0, 0, 0, 0, 0, 0, 0>>, max_stack |-> <<0, 0>>]

MagicChoices == {UFTRACE_MAGIC_STR,
                 [UFTRACE_MAGIC_STR EXCEPT ![1] = 102],
                 [UFTRACE_MAGIC_STR EXCEPT ![UFTRACE_MAGIC_LEN] = 1]}
VersionChoices == (UFTRACE_FILE_VERSION_MIN - VersionSlack) ..
                  (UFTRACE_FILE_VERSION + VersionSlack)
Mask(bit) == Pow2(bit)
FeatChoices == {0, Mask(TASK_SESSION_BIT), Mask(MAX_STACK_BIT),
                Mask(TASK_SESSION_BIT) + Mask(MAX_STACK_BIT),
                Mask(TASK_SESSION_BIT) + Mask(KERNEL_BIT) + Mask(ARGUMENT_BIT)
                    + Mask(SYM_REL_ADDR_BIT)}
InfoMaskChoices == {258}
MaxStackChoices == {320}

\* a header written by a machine of byte order e that tags it `tag`
HeaderChoices ==
    {[magic |-> m, version |-> Encode(v, 4, e), endian |-> tag,
      feat_mask |-> Encode(f, 8, e), info_mask |-> Encode(i, 8, e),
      max_stack |-> Encode(s, 2, e)] :
        m \in MagicChoices, v \in VersionChoices, e \in Endians, tag \in Endians,
        f \in FeatChoices, i \in InfoMaskChoices, s \in MaxStackChoices}

NoFile == [st |-> "absent", data |-> <<>>]
UnknownFile == [st |-> "unknown", data |-> <<>>]
UnknownDir == [info |-> "unknown",
               hdr |-> [st |-> "unknown", h |-> ZeroHeader, built |-> "lsb_first"],
               blocks |-> "unknown", kernel |-> "unknown",
               txt |-> UnknownFile, task |-> UnknownFile]

ZeroHandle == [fp |-> NULL, dirname |-> NULL, depth |-> 0, hdr |-> ZeroHeader,
               needs_byte_swap |-> FALSE, needs_bit_swap |-> FALSE,
               info |-> [exename |-> NULL, live |-> FALSE], args |-> FALSE,
               kernel |-> [pevent |-> NULL, output_dir |-> NULL]]

\* ------------------------------------------------------------------------
\* open_data_file
\* ------------------------------------------------------------------------
InfoPath(dirname) == <<dirname, "info">>

\* pr_err() prints and calls exit(): the call never returns
pr_err == /\ result' = "exit"
          /\ UNCHANGED opc

\* Faulty variant of RetryOldDir: retries whatever directory was configured.
RetryOldDir_AnyDir(tried, dirname) == ~tried

\* if (!again && !strcmp(opts->dirname, UFTRACE_DIR_NAME)): retry with the
\* old default dirname
RetryOldDir(tried, dirname) == ~tried /\ dirname = UFTRACE_DIR_NAME

\* retry: fp = fopen(buf, "rb") and the whole of the fp == NULL branch
OpenFopen ==
    /\ result = "running" /\ opc = "fopen"
    /\ \E st \in (IF fs[buf[1]].info = "unknown" THEN {"ok", "ENOENT", "EACCES"}
                  ELSE {fs[buf[1]].info}) :
        /\ fs' = [fs EXCEPT ![buf[1]].info = st]
        /\ calls' = Append(calls, buf)
        /\ IF st = "ok"
           THEN /\ handle' = [handle EXCEPT !.fp = buf]
                /\ opc' = "setup"
                /\ UNCHANGED <<buf, again, result>>
           ELSE /\ UNCHANGED handle
                /\ IF st = "ENOENT"
                   THEN IF RetryOldDir(again, opts.dirname)
                        THEN /\ buf' = InfoPath(UFTRACE_DIR_OLD_NAME)
                             /\ again' = TRUE
                             /\ UNCHANGED <<opc, result>>
                        ELSE /\ buf' = InfoPath(opts.dirname)
                             /\ UNCHANGED again
                             /\ IF opts.exename # NULL
                                THEN pr_err
                                ELSE result' = "retm1" /\ UNCHANGED opc
                   ELSE /\ buf' = InfoPath(opts.dirname)
                        /\ UNCHANGED again
                        /\ pr_err
    /\ UNCHANGED <<buildVars, sessions, opts, warned, txtVars, legacyVars,
                   writerVars>>

\* if (again) opts->dirname = OLD; handle->... = ...; sessions = RB_ROOT
OpenSetup ==
    /\ result = "running" /\ opc = "setup"
    /\ opts' = [opts EXCEPT !.dirname = IF again THEN UFTRACE_DIR_OLD_NAME ELSE @]
    /\ handle' = [handle EXCEPT !.dirname = opts'.dirname, !.depth = opts.depth,
                                !.kernel.pevent = NULL]
    /\ sessions' = RB_ROOT
    /\ opc' = "fread"
    /\ UNCHANGED <<buildVars, fs, result, buf, again, warned, calls, txtVars,
                   legacyVars, writerVars>>

\* fread(&handle->hdr, sizeof(handle->hdr), 1, fp)
OpenFread ==
    /\ result = "running" /\ opc = "fread"
    /\ LET d == handle.fp[1] IN
       \E st \in (IF fs[d].hdr.st = "unknown" THEN {"ok", "short"} ELSE {fs[d].hdr.st}) :
       \E h \in (IF st = "short" THEN {ZeroHeader}
                 ELSE IF fs[d].hdr.st = "unknown" THEN HeaderChoices
                 ELSE {fs[d].hdr.h}) :
       \E b \in (IF st = "ok" /\ fs[d].hdr.st = "unknown" THEN BitfieldLayouts
                 ELSE {fs[d].hdr.built}) :
        /\ fs' = [fs EXCEPT ![d].hdr = [st |-> st, h |-> h, built |-> b]]
        /\ IF st = "ok"
           THEN /\ handle' = [handle EXCEPT !.hdr = h]
                /\ opc' = "magic"
                /\ UNCHANGED result
           ELSE /\ UNCHANGED handle
                /\ pr_err
    /\ UNCHANGED <<buildVars, sessions, opts, buf, again, warned, calls, txtVars,
                   legacyVars, writerVars>>

\* Faulty variant of memcmp: leaves the last byte out of the comparison.
memcmp_ShortByOne(a, b, n) == \E i \in 1..(n - 1) : a[i] # b[i]

\* memcmp(a, b, n) != 0
memcmp(a, b, n) == \E i \in 1..n : a[i] # b[i]

\* if (memcmp(handle->hdr.magic, UFTRACE_MAGIC_STR, UFTRACE_MAGIC_LEN)) pr_err
OpenCheckMagic ==
    /\ result = "running" /\ opc = "magic"
    /\ IF memcmp(handle.hdr.magic, UFTRACE_MAGIC_STR, UFTRACE_MAGIC_LEN)
       THEN pr_err
       ELSE opc' = "order" /\ UNCHANGED result
    /\ UNCHANGED <<buildVars, fs, sessions, opts, handle, buf, again, warned, calls,
                   txtVars, legacyVars, writerVars>>

\* Faulty variant of check_data_order: the test of the magic field is inverted.
check_data_order_Flipped(h) ==
    [h EXCEPT !.needs_byte_swap = (host_endian # h.hdr.endian),
              !.needs_bit_swap =
                  (RecordMagicField(Bits64(RECORD_MAGIC * Pow2(3)), host_bitfield)
                       = RECORD_MAGIC)]

\* check_data_order(handle)
check_data_order(h) ==
    [h EXCEPT !.needs_byte_swap = (host_endian # h.hdr.endian),
              !.needs_bit_swap =
                  (RecordMagicField(Bits64(RECORD_MAGIC * Pow2(3)), host_bitfield)
                       # RECORD_MAGIC)]

OpenCheckDataOrder ==
    /\ result = "running" /\ opc = "order"
    /\ handle' = check_data_order(handle)
    /\ opc' = "swap"
    /\ UNCHANGED <<buildVars, fs, sessions, result, opts, buf, again, warned, calls,
                   txtVars, legacyVars, writerVars>>

\* Faulty variant of SwapHeader: leaves info_mask and max_stack as stored.
SwapHeader_Partial(hdr) ==
    [hdr EXCEPT !.version = bswap_32(@), !.feat_mask = bswap_64(@)]

\* if (handle->needs_byte_swap) { hdr.version = bswap_32(hdr.version); ... }
SwapHeader(hdr) ==
    [hdr EXCEPT !.version = bswap_32(@), !.feat_mask = bswap_64(@),
                !.info_mask = bswap_64(@), !.max_stack = bswap_16(@)]

OpenByteSwap ==
    /\ result = "running" /\ opc = "swap"
    /\ handle' = [handle EXCEPT !.hdr = IF handle.needs_byte_swap
                                         THEN SwapHeader(@) ELSE @]
    /\ opc' = "version"
    /\ UNCHANGED <<buildVars, fs, sessions, result, opts, buf, again, warned, calls,
                   txtVars, legacyVars, writerVars>>

\* handle->hdr.version as the running machine reads it
HdrVersion(h) == Value(h.hdr.version, host_endian)

\* Faulty variant of VersionUnsupported: the lower bound is exclusive.
VersionUnsupported_Exclusive(v) ==
    v <= UFTRACE_FILE_VERSION_MIN \/ v > UFTRACE_FILE_VERSION

\* hdr.version < UFTRACE_FILE_VERSION_MIN || hdr.version > UFTRACE_FILE_VERSION
VersionUnsupported(v) == v < UFTRACE_FILE_VERSION_MIN \/ v > UFTRACE_FILE_VERSION

OpenCheckVersion ==
    /\ result = "running" /\ opc = "version"
    /\ IF VersionUnsupported(HdrVersion(handle))
       THEN pr_err
       ELSE opc' = "info" /\ UNCHANGED result
    /\ UNCHANGED <<buildVars, fs, sessions, opts, handle, buf, again, warned, calls,
                   txtVars, legacyVars, writerVars>>

\* read_ftrace_info(); fclose(fp); if (opts->exename == NULL) opts->exename = ...
OpenReadInfo ==
    /\ result = "running" /\ opc = "info"
    /\ LET d == handle.fp[1] IN
       \E st \in (IF fs[d].blocks = "unknown" THEN {"ok", "bad"} ELSE {fs[d].blocks}) :
        /\ fs' = [fs EXCEPT ![d].blocks = st]
        /\ IF st = "bad"
           THEN pr_err /\ UNCHANGED <<handle, opts>>
           ELSE /\ handle' = [handle EXCEPT !.info = [exename |-> "info.exename",
                                                      live |-> TRUE]]
                /\ opts' = [opts EXCEPT !.exename =
                                IF @ = NULL THEN handle'.info.exename ELSE @]
                /\ opc' = "sessions"
                /\ UNCHANGED result
    /\ UNCHANGED <<buildVars, sessions, buf, again, warned, calls, txtVars,
                   legacyVars, writerVars>>

FeatHas(h, bit) == TestBit(h.hdr.feat_mask, bit, host_endian)

\* if (feat_mask & TASK_SESSION) { ... read_task_txt_file(...) < 0 &&
OpenSessions ==
    /\ result = "running" /\ opc = "sessions"
    /\ IF FeatHas(handle, TASK_SESSION_BIT)
       THEN /\ tpc' = "fopen"
            /\ targs' = [dirname |-> opts.dirname, needs_session |-> TRUE,
                         sym_rel_addr |-> FeatHas(handle, SYM_REL_ADDR_BIT)]
            /\ opc' = "txt_wait"
       ELSE /\ opc' = "args"
            /\ UNCHANGED <<tpc, targs>>
    /\ UNCHANGED <<buildVars, fs, sessions, result, opts, handle, buf, again, warned,
                   calls, tpos, tloc, tret, legacyVars, writerVars>>

\* Faulty variant of TxtFailed: the legacy reader runs after every text read.
TxtFailed_Always(ret) == TRUE

\* read_task_txt_file(...) < 0 &&: whether the right operand is evaluated
TxtFailed(ret) == ret < 0

\* ... && read_task_file(...) < 0) : the second operand of the &&
OpenAfterTxt ==
    /\ result = "running" /\ opc = "txt_wait" /\ tpc = "ret"
    /\ tpc' = "idle"
    /\ IF TxtFailed(tret)
       THEN /\ lpc' = "open"
            /\ largs' = targs
            /\ opc' = "legacy_wait"
       ELSE /\ opc' = "args"
            /\ UNCHANGED <<lpc, largs>>
    /\ UNCHANGED <<buildVars, fs, sessions, result, opts, handle, buf, again, warned,
                   calls, targs, tpos, tloc, tret, lpos, lloc, lret, writerVars>>

\* Faulty variant of pr_warn: the message is fatal, as with pr_err.
pr_warn_Fatal == /\ warned' = TRUE
                 /\ result' = "exit"

\* pr_warn() prints and returns
pr_warn == /\ warned' = TRUE
           /\ UNCHANGED result

\* ... && read_task_file(...) < 0) pr_warn("invalid task file\n");
OpenAfterLegacy ==
    /\ result = "running" /\ opc = "legacy_wait" /\ lpc = "ret"
    /\ lpc' = "idle"
    /\ IF lret < 0 THEN pr_warn ELSE UNCHANGED <<warned, result>>
    /\ opc' = "args"
    /\ UNCHANGED <<buildVars, fs, sessions, opts, handle, buf, again, calls,
                   txtVars, largs, lpos, lloc, lret, writerVars>>

\* Faulty variant of max_stack_default: the feature bit is not tested.
max_stack_default_Always(h) ==
    [h EXCEPT !.hdr.max_stack = Encode(MCOUNT_RSTACK_MAX, 2, host_endian)]

\* if (!(handle->hdr.feat_mask & MAX_STACK)) handle->hdr.max_stack = MCOUNT_RSTACK_MAX;
max_stack_default(h) ==
    IF ~FeatHas(h, MAX_STACK_BIT)
    THEN [h EXCEPT !.hdr.max_stack = Encode(MCOUNT_RSTACK_MAX, 2, host_endian)]
    ELSE h

\* setup_fstack_args, the max_stack default, the kernel data, ret = 0
OpenFinish ==
    /\ result = "running" /\ opc = "args"
    /\ LET d == opts.dirname
           h1 == [handle EXCEPT !.args = FeatHas(handle, ARGUMENT_BIT)
                                          \/ FeatHas(handle, RETVAL_BIT)]
           h2 == max_stack_default(h1)
       IN  IF FeatHas(handle, KERNEL_BIT)
           THEN \E st \in (IF fs[d].kernel = "unknown" THEN {"ok", "bad"}
                           ELSE {fs[d].kernel}) :
                   /\ fs' = [fs EXCEPT ![d].kernel = st]
                   /\ handle' = [h2 EXCEPT !.kernel =
                                     [pevent |-> IF st = "ok" THEN "pevent" ELSE NULL,
                                      output_dir |-> d]]
           ELSE /\ handle' = h2
                /\ UNCHANGED fs
    /\ result' = "ret0"
    /\ opc' = "done"
    /\ UNCHANGED <<buildVars, sessions, opts, buf, again, warned, calls, txtVars,
                   legacyVars, writerVars>>

\* ------------------------------------------------------------------------
\* uint64_t: the 64 bits of the number, bit 0 first
\* ------------------------------------------------------------------------
NSEC_PER_SEC == 1000000000

\* uint64_t numbers are held as four 16-bit limbs, least significant first
LIMB == 65536
HALF == 32768

\* the uint64_t of an int 0 <= n < 2^31
U64(n) == <<n % LIMB, n \div LIMB, 0, 0>>
U64Max == <<LIMB - 1, LIMB - 1, LIMB - 1, LIMB - 1>>

\* carry from limb to limb and drop what leaves the 64 bits
Carry4(a) ==
    LET t2 == a[2] + (a[1] \div LIMB)
        t3 == a[3] + (t2 \div LIMB)
        t4 == a[4] + (t3 \div LIMB)
    IN  <<a[1] % LIMB, t2 % LIMB, t3 % LIMB, t4 % LIMB>>

\* x + y modulo 2^64
U64Add(x, y) == Carry4(<<x[1] + y[1], x[2] + y[2], x[3] + y[3], x[4] + y[4]>>)

\* x * m modulo 2^64, for an int 0 <= m <= 2^15
MulSmall(x, m) == Carry4(<<x[1] * m, x[2] * m, x[3] * m, x[4] * m>>)

\* x * n modulo 2^64, for an int 0 <= n < 2^30: n = (n / 2^15) * 2^15 + n % 2^15
U64Mul(x, n) ==
    U64Add(MulSmall(MulSmall(x, n \div HALF), HALF), MulSmall(x, n % HALF))

\* x / m and x % m for an int 0 < m <= 2^15: long division, limb by limb
U64DivMod(x, m) ==
    LET c3 == (x[4] % m) * LIMB + x[3]
        c2 == (c3 % m) * LIMB + x[2]
        c1 == (c2 % m) * LIMB + x[1]
    IN  [q |-> <<c1 \div m, c2 \div m, c3 \div m, x[4] \div m>>, r |-> c1 % m]

\* x / NSEC_PER_SEC and x % NSEC_PER_SEC. NSEC_PER_SEC is 1000 * 1000 * 1000 and
\* for unsigned x, x / (a * b) = (x / a) / b.
NSEC_ROOT == 1000
U64DivModNsec(x) ==
    LET a == U64DivMod(x, NSEC_ROOT)
        b == U64DivMod(a.q, NSEC_ROOT)
        c == U64DivMod(b.q, NSEC_ROOT)
    IN  [q |-> c.q, r |-> a.r + NSEC_ROOT * (b.r + NSEC_ROOT * c.r)]

\* ------------------------------------------------------------------------
\* Text: a string is the sequence of its characters
\* ------------------------------------------------------------------------
DigitChars == <<"0", "1", "2", "3", "4", "5", "6", "7", "8", "9",
                "a", "b", "c", "d", "e", "f">>
DigitOf(c) == (CHOOSE i \in 1..16 : DigitChars[i] = c) - 1
IsDigit(c, base) == \E i \in 1..base : DigitChars[i] = c
IsSpace(c) == c \in {" ", "\n", "\t"}

\* the digits of x in the given base, most significant first ("0" for 0)
RECURSIVE U64Digits(_, _)
U64Digits(x, base) ==
    LET d == U64DivMod(x, base)
    IN  IF d.q = U64(0) THEN <<DigitChars[d.r + 1]>>
        ELSE U64Digits(d.q, base) \o <<DigitChars[d.r + 1]>>

RECURSIVE ZeroPad(_, _)
ZeroPad(s, width) == IF Len(s) >= width THEN s ELSE ZeroPad(<<"0">> \o s, width)

\* printf("%d") of an int
RECURSIVE NatDigits(_)
NatDigits(n) == IF n < 10 THEN <<DigitChars[n + 1]>>
                ELSE NatDigits(n \div 10) \o <<DigitChars[(n % 10) + 1]>>
FormatInt(n) == IF n < 0 THEN <<"-">> \o NatDigits(0 - n) ELSE NatDigits(n)

\* snprint_timestamp: "%" PRIu64 ".%09" PRIu64 of timestamp / NSEC_PER_SEC and
\* timestamp % NSEC_PER_SEC
snprint_timestamp(timestamp) ==
    LET d == U64DivModNsec(timestamp)
    IN  U64Digits(d.q, 10) \o <<".">> \o ZeroPad(U64Digits(U64(d.r), 10), 9)

STR_TASK == <<"T", "A", "S", "K">>
STR_FORK == <<"F", "O", "R", "K">>
STR_SESS == <<"S", "E", "S", "S">>
STR_DLOP == <<"D", "L", "O", "P">>
STR_timestamp == <<" ", "t", "i", "m", "e", "s", "t", "a", "m", "p", "=">>
STR_tid == <<" ", "t", "i", "d", "=">>
STR_pid == <<" ", "p", "i", "d", "=">>
STR_ppid == <<" ", "p", "p", "i", "d", "=">>
STR_sid == <<" ", "s", "i", "d", "=">>
STR_base == <<" ", "b", "a", "s", "e", "=">>
STR_exename == <<"e", "x", "e", "n", "a", "m", "e", "=">>
STR_libname == <<"l", "i", "b", "n", "a", "m", "e", "=">>
QUOTE == <<"\"">>
NEWLINE == <<"\n">>

\* the line each write_*_info call prints with fprintf
TaskLine(tmsg) ==
    STR_TASK \o STR_timestamp \o snprint_timestamp(tmsg.time)
        \o STR_tid \o FormatInt(tmsg.tid) \o STR_pid \o FormatInt(tmsg.pid) \o NEWLINE

ForkLine(tmsg) ==
    STR_FORK \o STR_timestamp \o snprint_timestamp(tmsg.time)
        \o STR_pid \o FormatInt(tmsg.tid) \o STR_ppid \o FormatInt(tmsg.pid) \o NEWLINE

SessLine(smsg, exename) ==
    STR_SESS \o STR_timestamp \o snprint_timestamp(smsg.task.time)
        \o STR_pid \o FormatInt(smsg.task.pid) \o STR_sid \o smsg.sid
        \o <<" ">> \o STR_exename \o QUOTE \o exename \o QUOTE \o NEWLINE

DlopLine(dmsg, libname) ==
    STR_DLOP \o STR_timestamp \o snprint_timestamp(dmsg.task.time)
        \o STR_tid \o FormatInt(dmsg.task.tid) \o STR_sid \o dmsg.sid
        \o STR_base \o U64Digits(dmsg.base_addr, 16)
        \o <<" ">> \o STR_libname \o QUOTE \o libname \o QUOTE \o NEWLINE

\* ------------------------------------------------------------------------
\* sscanf
\* ------------------------------------------------------------------------
FMT_TASK == <<"t", "i", "m", "e", "s", "t", "a", "m", "p", "=", "%lu", ".", "%lu", " ", "t", "i", "d", "=", "%d", " ", "p", "i", "d", "=", "%d">>
FMT_FORK == <<"t", "i", "m", "e", "s", "t", "a", "m", "p", "=", "%lu", ".", "%lu", " ", "p", "i", "d", "=", "%d", " ", "p", "p", "i", "d", "=", "%d">>
FMT_SESS == <<"t", "i", "m", "e", "s", "t", "a", "m", "p", "=", "%lu", ".", "%lu", " ", "%*[^i]", "i", "d", "=", "%d", " ", "s", "i", "d", "=", "%s">>
FMT_DLOP == <<"t", "i", "m", "e", "s", "t", "a", "m", "p", "=", "%lu", ".", "%lu", " ", "t", "i", "d", "=", "%d", " ", "s", "i", "d", "=", "%s", " ", "b", "a", "s", "e", "=", "%lx">>

RECURSIVE SkipWhile(_, _, _)
\* the first index from i on whose character is not in the class
SkipWhile(s, i, class) ==
    IF i <= Len(s) /\ (CASE class = "space" -> IsSpace(s[i])
                         [] class = "dec" -> IsDigit(s[i], 10)
                         [] class = "hex" -> IsDigit(s[i], 16)
                         [] class = "nonspace" -> ~IsSpace(s[i])
                         [] class = "not_i" -> s[i] # "i")
    THEN SkipWhile(s, i + 1, class) ELSE i

RECURSIVE LessFrom(_, _, _)
LessFrom(x, y, i) ==
    IF i = 0 THEN FALSE
    ELSE IF x[i] # y[i] THEN x[i] < y[i] ELSE LessFrom(x, y, i - 1)
U64Less(x, y) == LessFrom(x, y, 4)

\* strtoul: the value of a digit string, ULONG_MAX when it does not fit
RECURSIVE ParseFrom(_, _, _, _)
ParseFrom(s, i, base, x) ==
    IF i > Len(s) THEN x
    ELSE LET lim == U64DivMod(U64Max, base)
             d == DigitOf(s[i])
         IN  IF U64Less(lim.q, x) \/ (x = lim.q /\ d > lim.r) THEN U64Max
             ELSE ParseFrom(s, i + 1, base, U64Add(MulSmall(x, base), U64(d)))
ParseU64(s, base) == ParseFrom(s, 1, base, U64(0))

\* what %lu stores in a long: strtoul of the digits in the build's unsigned
\* long, ULONG_MAX when they do not fit
ULONG_MAX == IF host_long = 64 THEN U64Max ELSE <<LIMB - 1, LIMB - 1, 0, 0>>
ParseULong(s) ==
    IF U64Less(ULONG_MAX, ParseU64(s, 10)) THEN ULONG_MAX ELSE ParseU64(s, 10)

\* (uint64_t)x of a long x, given as the bits x holds: the sign bit is extended
LongToU64(x) ==
    IF host_long = 32 /\ x[2] >= HALF THEN <<x[1], x[2], LIMB - 1, LIMB - 1>>
    ELSE x

RECURSIVE ParseNatFrom(_, _, _)
ParseNatFrom(s, i, n) ==
    IF i > Len(s) THEN n ELSE ParseNatFrom(s, i + 1, 10 * n + DigitOf(s[i]))

\* the string from index i on (line + 5)
From(s, i) == IF i > Len(s) THEN <<>> ELSE SubSeq(s, i, Len(s))

\* one directive f of a scanf format at index i of s: whether it matched, the
\* index after it and the values converted so far. %lu gives the bits of a
\* long, %lx (PRIx64) a uint64, %d an int, %s the characters of the word; white space in the
\* format skips white space; any other character must be the next one.
Stop(out) == [ok |-> FALSE, i |-> 0, out |-> out]
Go(i, out) == [ok |-> TRUE, i |-> i, out |-> out]
ScanStep(s, i, f, out) ==
    LET k == SkipWhile(s, i, "space")
    IN  CASE f = " " -> Go(k, out)
          [] f = "%lu" ->
               LET e == SkipWhile(s, k, "dec")
               IN  IF e = k THEN Stop(out)
                   ELSE Go(e, Append(out, ParseULong(SubSeq(s, k, e - 1))))
          [] f = "%lx" ->
               LET e == SkipWhile(s, k, "hex")
               IN  IF e = k THEN Stop(out)
                   ELSE Go(e, Append(out, ParseU64(SubSeq(s, k, e - 1), 16)))
          [] f = "%d" ->
               LET neg == k <= Len(s) /\ s[k] = "-"
                   b == IF neg THEN k + 1 ELSE k
                   e == SkipWhile(s, b, "dec")
                   n == ParseNatFrom(SubSeq(s, b, e - 1), 1, 0)
               IN  IF e = b THEN Stop(out)
                   ELSE Go(e, Append(out, IF neg THEN 0 - n ELSE n))
          [] f = "%s" ->
               LET e == SkipWhile(s, k, "nonspace")
               IN  IF e = k THEN Stop(out)
                   ELSE Go(e, Append(out, SubSeq(s, k, e - 1)))
          [] f = "%*[^i]" ->
               LET e == SkipWhile(s, i, "not_i")
               IN  IF e = i THEN Stop(out) ELSE Go(e, out)
          [] OTHER ->
               IF i <= Len(s) /\ s[i] = f THEN Go(i + 1, out) ELSE Stop(out)

\* sscanf(s, fmt, ...): the values converted, in order, up to the first
\* directive that does not match
RECURSIVE Scan(_, _, _, _, _)
ScanNext(s, fmt, j, r) == IF r.ok THEN Scan(s, r.i, fmt, j + 1, r.out) ELSE r.out
Scan(s, i, fmt, j, out) ==
    IF j > Len(fmt) THEN out ELSE ScanNext(s, fmt, j, ScanStep(s, i, fmt[j], out))

sscanf(s, fmt) == Scan(s, 1, fmt, 1, <<>>)

\* strncmp(line, tag, 4) == 0
HasTag(line, tag) == Len(line) >= 4 /\ SubSeq(line, 1, 4) = tag

\* strstr(line, word): the index where word first occurs in line, 0 for NULL
strstr(line, word) ==
    LET hit == {i \in 1..(Len(line) - Len(word) + 1) :
                    SubSeq(line, i, i + Len(word) - 1) = word}
    IN  IF hit = {} THEN 0 ELSE CHOOSE i \in hit : \A j \in hit : i <= j

\* pos + 8 + 1, then the string cut at its last double quote (strrchr)
QuotedName(line, pos) ==
    LET rest == From(line, pos + 8 + 1)
        q == {i \in 1..Len(rest) : rest[i] = "\""}
    IN  IF q = {} THEN rest
        ELSE SubSeq(rest, 1, (CHOOSE i \in q : \A j \in q : j <= i) - 1)

\* ------------------------------------------------------------------------
\* read_task_txt_file
\* ------------------------------------------------------------------------
\* the locals sec, nsec, tmsg, smsg, dlop are not initialised: they hold
\* whatever the stack held, here one of GarbageChoices
GarbageChoices == {0, 77}
TaskMsg(tid, pid, time) == [tid |-> tid, pid |-> pid, time |-> time]
GarbageLocals(n) ==
    [sec |-> U64(n), nsec |-> U64(n), tmsg |-> TaskMsg(n, n, U64(n)),
     smsg |-> [task |-> TaskMsg(n, n, U64(n)), sid |-> <<"?">>, namelen |-> n],
     dlop |-> [task |-> TaskMsg(n, n, U64(n)), sid |-> <<"?">>,
               base_addr |-> U64(n), namelen |-> n]]

\* sample events and the task.txt files a data directory may hold
SID1 == <<"a", "b", "c", "1", "2", "3">>
SID2 == <<"0", "f", "f", "1", "c", "e">>
EXE1 == <<"/", "b", "i", "n", "/", "a", "p", "p">>
LIB1 == <<"l", "i", "b", "x", ".", "s", "o">>
TS1 == U64Add(U64Mul(U64(10), NSEC_PER_SEC), U64(1))
TS0 == U64Mul(U64(10), NSEC_PER_SEC)
TASK1 == TaskMsg(5, 5, TS1)
SESS1 == [task |-> TaskMsg(5, 5, TS0), sid |-> SID1, namelen |-> Len(EXE1)]
DLOP1 == [task |-> TaskMsg(5, 5, TS1), sid |-> SID1, base_addr |-> U64(4096 * 1027),
          namelen |-> Len(LIB1)]
DLOP2 == [DLOP1 EXCEPT !.sid = SID2]
LINE_NOEXE == <<"S", "E", "S", "S", " ", "t", "i", "m", "e", "s", "t", "a", "m", "p", "=", "1", ".", "0", "0", "0", "0", "0", "0", "0", "0", "0", " ", "p", "i", "d", "=", "5", " ", "s", "i", "d", "=", "a", "b", "c", "1", "2", "3", "\n">>
LINE_OTHER == <<"#", " ", "u", "f", "t", "r", "a", "c", "e", "\n">>
LINE_SHORT == <<"T", "A", "S", "\n">>
LINE_BADTASK == <<"T", "A", "S", "K", " ", "t", "i", "d", "\n">>

TxtFileChoices ==
    {[st |-> "present", data |-> d] :
        d \in {<<>>,
               TaskLine(TASK1) \o SessLine(SESS1, EXE1),
               SessLine(SESS1, EXE1) \o DlopLine(DLOP1, LIB1) \o ForkLine(TASK1),
               TaskLine(TASK1) \o DlopLine(DLOP2, LIB1) \o TaskLine(TASK1),
               TaskLine(TASK1) \o LINE_NOEXE \o TaskLine(TASK1),
               LINE_OTHER \o LINE_SHORT \o TaskLine(TASK1),
               LINE_BADTASK \o TaskLine(TASK1)}}

\* getline(): the characters from pos up to and including the next newline
NextLine(data, pos) ==
    LET nl == {i \in pos..Len(data) : data[i] = "\n"}
    IN  SubSeq(data, pos, IF nl = {} THEN Len(data)
                          ELSE CHOOSE i \in nl : \A j \in nl : i <= j)

\* an output argument of sscanf: assigned when its conversion was reached
Arg(out, k, old) == IF Len(out) >= k THEN out[k] ELSE old

\* tmsg.time = (uint64_t)sec * NSEC_PER_SEC + nsec
ComposeTime(sec, nsec) ==
    U64Add(U64Mul(LongToU64(sec), NSEC_PER_SEC), LongToU64(nsec))

\* one turn of the while (getline(...) >= 0) loop: the locals, the registry
\* and whether the process goes on. `out` is what sscanf converted.
TaskScanned(out, loc, reg, args, fork) ==
    LET sec == Arg(out, 1, loc.sec)
        nsec == Arg(out, 2, loc.nsec)
        tmsg == TaskMsg(Arg(out, 3, loc.tmsg.tid), Arg(out, 4, loc.tmsg.pid),
                        ComposeTime(sec, nsec))
    IN  [loc |-> [loc EXCEPT !.sec = sec, !.nsec = nsec, !.tmsg = tmsg],
         reg |-> create_task(reg, tmsg, fork, args.needs_session),
         result |-> "running"]

TxtTaskLine(line, loc, reg, args, fmt, fork) ==
    TaskScanned(sscanf(From(line, 6), fmt), loc, reg, args, fork)

\* pos is strstr(line, "exename="), 0 for NULL
SessScanned(out, pos, line, loc, reg, args) ==
    LET sec == Arg(out, 1, loc.sec)
        nsec == Arg(out, 2, loc.nsec)
        pid == Arg(out, 3, loc.smsg.task.pid)
        sid == Arg(out, 4, loc.smsg.sid)
        exename == QuotedName(line, pos)
        smsg == [task |-> TaskMsg(pid, pid, ComposeTime(sec, nsec)),
                 sid |-> sid, namelen |-> Len(exename)]
        scanned == [loc EXCEPT !.sec = sec, !.nsec = nsec, !.smsg.task.pid = pid,
                               !.smsg.sid = sid]
    IN  IF pos = 0 THEN [loc |-> scanned, reg |-> reg, result |-> "exit"]
        ELSE [loc |-> [scanned EXCEPT !.smsg = smsg],
              reg |-> create_session(reg, smsg, args.dirname, exename,
                                     args.sym_rel_addr),
              result |-> "running"]

TxtSessLine(line, loc, reg, args) ==
    IF ~args.needs_session THEN [loc |-> loc, reg |-> reg, result |-> "running"]
    ELSE SessScanned(sscanf(From(line, 6), FMT_SESS), strstr(line, STR_exename),
                     line, loc, reg, args)

\* Faulty variant of DlopAttach: a library of an unknown session goes to the
\* first session there is.
DlopAttach_First(s, dlop, libname, scanned, reg) ==
    IF s = 0 /\ reg.sessions = <<>>
    THEN [loc |-> [scanned EXCEPT !.dlop = dlop], reg |-> reg, result |-> "abort"]
    ELSE [loc |-> [scanned EXCEPT !.dlop = dlop],
          reg |-> session_add_dlopen(reg, IF s = 0 THEN 1 ELSE s, dlop.task.time,
                                     dlop.base_addr, libname),
          result |-> "running"]

\* the session the library goes to: s is get_session_from_sid(), 0 for NULL
DlopAttach(s, dlop, libname, scanned, reg) ==
    IF s = 0
    THEN [loc |-> [scanned EXCEPT !.dlop = dlop], reg |-> reg, result |-> "abort"]
    ELSE [loc |-> [scanned EXCEPT !.dlop = dlop],
          reg |-> session_add_dlopen(reg, s, dlop.task.time, dlop.base_addr, libname),
          result |-> "running"]

\* pos is strstr(line, "libname="), 0 for NULL
DlopScanned(out, pos, line, loc, reg, args) ==
    LET sec == Arg(out, 1, loc.sec)
        nsec == Arg(out, 2, loc.nsec)
        tid == Arg(out, 3, loc.dlop.task.tid)
        sid == Arg(out, 4, loc.dlop.sid)
        base == Arg(out, 5, loc.dlop.base_addr)
        libname == QuotedName(line, pos)
        scanned == [loc EXCEPT !.sec = sec, !.nsec = nsec, !.dlop.task.tid = tid,
                               !.dlop.sid = sid, !.dlop.base_addr = base]
    IN  IF pos = 0 THEN [loc |-> scanned, reg |-> reg, result |-> "exit"]
        ELSE DlopAttach(get_session_from_sid(reg, sid),
                        [task |-> TaskMsg(tid, tid, ComposeTime(sec, nsec)),
                         sid |-> sid, base_addr |-> base, namelen |-> Len(libname)],
                        libname, scanned, reg)

TxtDlopLine(line, loc, reg, args) ==
    IF ~args.needs_session THEN [loc |-> loc, reg |-> reg, result |-> "running"]
    ELSE DlopScanned(sscanf(From(line, 6), FMT_DLOP), strstr(line, STR_libname),
                     line, loc, reg, args)

\* Faulty variant of TxtLine: a line of no known tag ends the process.
TxtLine_Strict(line, loc, reg, args) ==
    IF HasTag(line, STR_TASK) THEN TxtTaskLine(line, loc, reg, args, FMT_TASK, FALSE)
    ELSE IF HasTag(line, STR_FORK)
         THEN TxtTaskLine(line, loc, reg, args, FMT_FORK, TRUE)
    ELSE IF HasTag(line, STR_SESS) THEN TxtSessLine(line, loc, reg, args)
    ELSE IF HasTag(line, STR_DLOP) THEN TxtDlopLine(line, loc, reg, args)
    ELSE [loc |-> loc, reg |-> reg, result |-> "exit"]

TxtLine(line, loc, reg, args) ==
    IF HasTag(line, STR_TASK) THEN TxtTaskLine(line, loc, reg, args, FMT_TASK, FALSE)
    ELSE IF HasTag(line, STR_FORK)
         THEN TxtTaskLine(line, loc, reg, args, FMT_FORK, TRUE)
    ELSE IF HasTag(line, STR_SESS) THEN TxtSessLine(line, loc, reg, args)
    ELSE IF HasTag(line, STR_DLOP) THEN TxtDlopLine(line, loc, reg, args)
    ELSE [loc |-> loc, reg |-> reg, result |-> "running"]

\* fp = fopen(fname, "r"); if (fp == NULL) return -errno;
TxtFopen ==
    /\ result = "running" /\ tpc = "fopen"
    /\ LET d == targs.dirname IN
       \E f \in (IF fs[d].txt.st = "unknown" THEN TxtFileChoices \cup {NoFile}
                 ELSE {fs[d].txt}) :
       \E g \in GarbageChoices :
        /\ fs' = [fs EXCEPT ![d].txt = f]
        /\ calls' = Append(calls, <<d, "task.txt">>)
        /\ IF f.st = "absent"
           THEN /\ tret' = 0 - ENOENT
                /\ tpc' = "ret"
                /\ UNCHANGED <<tpos, tloc>>
           ELSE /\ tpos' = 1
                /\ tloc' = GarbageLocals(g)
                /\ tpc' = "getline"
                /\ UNCHANGED tret
    /\ UNCHANGED <<buildVars, sessions, result, opts, handle, opc, buf, again,
                   warned, targs, legacyVars, writerVars>>

\* while (getline(&line, &sz, fp) >= 0) { ... } fclose(fp); return 0;
\* Faulty variant of TxtGetline: a file that registered nothing is a failure.
TxtGetline_FailWhenEmpty ==
    /\ result = "running" /\ tpc = "getline"
    /\ LET data == fs[targs.dirname].txt.data IN
       IF tpos > Len(data)
       THEN /\ tret' = IF sessions = RB_ROOT THEN 0 - 1 ELSE 0
            /\ tpc' = "ret"
            /\ UNCHANGED <<tpos, tloc, sessions, result>>
       ELSE \E r \in {TxtLine(NextLine(data, tpos), tloc, sessions, targs)} :
                /\ tpos' = tpos + Len(NextLine(data, tpos))
                /\ tloc' = r.loc
                /\ sessions' = r.reg
                /\ result' = r.result
                /\ UNCHANGED <<tpc, tret>>
    /\ UNCHANGED <<buildVars, fs, openVars, targs, legacyVars, writerVars>>

TxtGetline ==
    /\ result = "running" /\ tpc = "getline"
    /\ LET data == fs[targs.dirname].txt.data IN
       IF tpos > Len(data)
       THEN /\ tret' = 0
            /\ tpc' = "ret"
            /\ UNCHANGED <<tpos, tloc, sessions, result>>
       ELSE \E r \in {TxtLine(NextLine(data, tpos), tloc, sessions, targs)} :
                /\ tpos' = tpos + Len(NextLine(data, tpos))
                /\ tloc' = r.loc
                /\ sessions' = r.reg
                /\ result' = r.result
                /\ UNCHANGED <<tpc, tret>>
    /\ UNCHANGED <<buildVars, fs, openVars, targs, legacyVars, writerVars>>

\* ------------------------------------------------------------------------
\* The legacy 'task' file: one cell per byte. A struct is a cell holding its
\* value followed by "fill" cells up to its size; a name is its characters;
\* padding is "\0" characters.
\* ------------------------------------------------------------------------
Fill(n) == [i \in 1..n |-> [k |-> "fill"]]
MsgCells(magic, type) ==
    <<[k |-> "msg", v |-> [magic |-> magic, type |-> type]]>> \o Fill(SIZEOF_MSG - 1)
TaskCells(tmsg) == <<[k |-> "task", v |-> tmsg]>> \o Fill(SIZEOF_TASK - 1)
SessCells(smsg) == <<[k |-> "sess", v |-> smsg]>> \o Fill(SIZEOF_SESS - 1)
ByteCells(str) == [i \in 1..Len(str) |-> [k |-> "byte", v |-> str[i]]]

\* the padding the recorder writes after a name of n bytes: to the next
\* multiple of 8
AlignPad(n) == (8 - (n % 8)) % 8

\* the messages as the recorder writes them
TidMessage(tmsg) == MsgCells(FTRACE_MSG_MAGIC, FTRACE_MSG_TID) \o TaskCells(tmsg)
ForkMessage(tmsg) == MsgCells(FTRACE_MSG_MAGIC, FTRACE_MSG_FORK_END) \o TaskCells(tmsg)
SessionMessage(smsg, exename) ==
    MsgCells(FTRACE_MSG_MAGIC, FTRACE_MSG_SESSION)
        \o SessCells([smsg EXCEPT !.namelen = Len(exename)])
        \o ByteCells(exename)
        \o ByteCells([i \in 1..AlignPad(Len(exename)) |-> "\\0"])

\* read_all(fd, buf, size) at offset pos: 0 when size bytes were there, else -1
\* with the offset at the end of the file
read_all(data, pos, size) ==
    IF size >= 0 /\ pos + size - 1 <= Len(data)
    THEN [ret |-> 0, pos |-> pos + size]
    ELSE [ret |-> 0 - 1, pos |-> Len(data) + 1]

\* the struct that size bytes at pos hold: the value written there, and for
\* bytes that were not written as this struct, a struct of the bytes' garbage
GarbageStruct(kind) ==
    CASE kind = "msg" -> [magic |-> 0, type |-> 0]
      [] kind = "task" -> TaskMsg(0, 0, U64(0))
      [] kind = "sess" -> [task |-> TaskMsg(0, 0, U64(0)), sid |-> <<"?">>,
                           namelen |-> 0]
StructAt(data, pos, size, kind) ==
    IF /\ data[pos].k = kind
       /\ \A i \in (pos + 1)..(pos + size - 1) : data[i].k = "fill"
    THEN data[pos].v ELSE GarbageStruct(kind)

\* the size bytes at pos, as characters
BytesAt(data, pos, size) ==
    [i \in 1..size |-> IF data[pos + i - 1].k = "byte" THEN data[pos + i - 1].v
                       ELSE "?"]

\* Faulty variant of LegacyLocals: ret starts as success.
LegacyLocals_RetZero ==
    [msg |-> GarbageStruct("msg"), smsg |-> GarbageStruct("sess"),
     tmsg |-> GarbageStruct("task"), buf |-> <<>>, ret |-> 0,
     name_read |-> 0, pad_read |-> 0, sess_end |-> 0, nmsg |-> 0]

LegacyLocals == [msg |-> GarbageStruct("msg"), smsg |-> GarbageStruct("sess"),
                 tmsg |-> GarbageStruct("task"), buf |-> <<>>, ret |-> 0 - 1,
                 name_read |-> 0, pad_read |-> 0, sess_end |-> 0, nmsg |-> 0]

\* the 'task' files a data directory may hold: well formed, a bad magic
\* after a good message, an unknown type, a payload cut short, an envelope
\* cut short
LegacyFileChoices ==
    {[st |-> "present", data |-> d] :
        d \in {<<>>,
               SessionMessage(SESS1, EXE1) \o TidMessage(TASK1),
               SessionMessage(SESS1, SubSeq(EXE1, 1, 5)) \o ForkMessage(TASK1),
               TidMessage(TASK1) \o MsgCells(0, FTRACE_MSG_TID) \o TaskCells(TASK1),
               TidMessage(TASK1) \o MsgCells(FTRACE_MSG_MAGIC, FTRACE_MSG_FORK_START),
               TidMessage(TASK1) \o MsgCells(FTRACE_MSG_MAGIC, FTRACE_MSG_TID)
                   \o SubSeq(TaskCells(TASK1), 1, 4),
               TidMessage(TASK1)
                   \o SubSeq(MsgCells(FTRACE_MSG_MAGIC, FTRACE_MSG_TID), 1, 3)}}

\* fd = open(buf, O_RDONLY); if (fd < 0) return -1;
LegOpen ==
    /\ result = "running" /\ lpc = "open"
    /\ LET d == largs.dirname IN
       \E f \in (IF fs[d].task.st = "unknown" THEN LegacyFileChoices \cup {NoFile}
                 ELSE {fs[d].task}) :
        /\ fs' = [fs EXCEPT ![d].task = f]
        /\ calls' = Append(calls, <<d, "task">>)
        /\ IF f.st = "absent"
           THEN /\ lret' = 0 - 1
                /\ lpc' = "ret"
                /\ UNCHANGED <<lpos, lloc>>
           ELSE /\ lpos' = 1
                /\ lloc' = LegacyLocals
                /\ lpc' = "msg"
                /\ UNCHANGED lret
    /\ UNCHANGED <<buildVars, sessions, result, opts, handle, opc, buf, again,
                   warned, txtVars, largs, writerVars>>

\* while (read_all(fd, &msg, sizeof(msg)) == 0) { magic check; switch (type)
LegReadMsg ==
    /\ result = "running" /\ lpc = "msg"
    /\ LET data == fs[largs.dirname].task.data
           r == read_all(data, lpos, SIZEOF_MSG)
           msg == StructAt(data, lpos, SIZEOF_MSG, "msg")
       IN  /\ lpos' = r.pos
           /\ IF r.ret # 0
              THEN /\ lloc' = [lloc EXCEPT !.ret = 0]
                   /\ lpc' = "out"
              ELSE /\ lloc' = [lloc EXCEPT !.msg = msg, !.nmsg = @ + 1]
                   /\ lpc' = IF msg.magic # FTRACE_MSG_MAGIC THEN "out"
                             ELSE IF msg.type = FTRACE_MSG_SESSION THEN "sess"
                             ELSE IF msg.type = FTRACE_MSG_TID THEN "tid"
                             ELSE IF msg.type = FTRACE_MSG_FORK_END THEN "fork"
                             ELSE "out"
    /\ UNCHANGED <<buildVars, fs, sessions, result, openVars, txtVars, largs, lret,
                   writerVars>>

\* case FTRACE_MSG_SESSION: read_all(fd, &smsg, sizeof(smsg))
LegReadSess ==
    /\ result = "running" /\ lpc = "sess"
    /\ LET data == fs[largs.dirname].task.data
           r == read_all(data, lpos, SIZEOF_SESS)
       IN  /\ lpos' = r.pos
           /\ IF r.ret < 0
              THEN lpc' = "out" /\ UNCHANGED lloc
              ELSE /\ lloc' = [lloc EXCEPT
                                 !.smsg = StructAt(data, lpos, SIZEOF_SESS, "sess"),
                                 !.name_read = 0, !.pad_read = 0, !.sess_end = r.pos]
                   /\ lpc' = "name"
    /\ UNCHANGED <<buildVars, fs, sessions, result, openVars, txtVars, largs, lret,
                   writerVars>>

\* read_all(fd, buf, smsg.namelen): the bytes go to buf[1024] however many
\* they are; a write past the end of buf is undefined, the process may run on
\* or die of it
LegReadName ==
    /\ result = "running" /\ lpc = "name"
    /\ LET data == fs[largs.dirname].task.data
           r == read_all(data, lpos, lloc.smsg.namelen)
       IN  /\ lpos' = r.pos
           /\ \E outcome \in (IF r.pos - lpos > SIZEOF_BUF THEN {"running", "abort"}
                               ELSE {"running"}) :
                 result' = outcome
           /\ IF r.ret < 0
              THEN /\ lloc' = [lloc EXCEPT !.name_read = r.pos - lpos]
                   /\ lpc' = "out"
              ELSE /\ lloc' = [lloc EXCEPT
                                 !.buf = BytesAt(data, lpos, lloc.smsg.namelen),
                                 !.name_read = lloc.smsg.namelen]
                   /\ lpc' = "pad"
    /\ UNCHANGED <<buildVars, fs, sessions, openVars, txtVars, largs, lret,
                   writerVars>>

\* Faulty variant of PadSize: the test of namelen % 8 is left out.
PadSize_Always(namelen) == 8 - (namelen % 8)

\* the bytes of padding read after a name of namelen bytes:
\* smsg.namelen % 8 && read_all(fd, pad, 8 - (smsg.namelen % 8))
PadSize(namelen) == IF namelen % 8 # 0 THEN 8 - (namelen % 8) ELSE 0

\* the padding, then if (needs_session) create_session(...); break;
LegReadPad ==
    /\ result = "running" /\ lpc = "pad"
    /\ LET data == fs[largs.dirname].task.data
           r == read_all(data, lpos, PadSize(lloc.smsg.namelen))
       IN  /\ lpos' = r.pos
           /\ IF r.ret < 0
              THEN /\ lloc' = [lloc EXCEPT !.pad_read = r.pos - lpos]
                   /\ lpc' = "out"
                   /\ UNCHANGED sessions
              ELSE /\ lloc' = [lloc EXCEPT !.pad_read = r.pos - lpos]
                   /\ sessions' = IF largs.needs_session
                                  THEN create_session(sessions, lloc.smsg,
                                                      largs.dirname, lloc.buf,
                                                      largs.sym_rel_addr)
                                  ELSE sessions
                   /\ lpc' = "msg"
    /\ UNCHANGED <<buildVars, fs, result, openVars, txtVars, largs, lret, writerVars>>

\* case FTRACE_MSG_TID / FTRACE_MSG_FORK_END: read tmsg, create_task
LegReadTask ==
    /\ result = "running" /\ lpc \in {"tid", "fork"}
    /\ LET data == fs[largs.dirname].task.data
           r == read_all(data, lpos, SIZEOF_TASK)
           tmsg == StructAt(data, lpos, SIZEOF_TASK, "task")
       IN  /\ lpos' = r.pos
           /\ IF r.ret < 0
              THEN lpc' = "out" /\ UNCHANGED <<lloc, sessions>>
              ELSE /\ lloc' = [lloc EXCEPT !.tmsg = tmsg]
                   /\ sessions' = create_task(sessions, tmsg, lpc = "fork",
                                              largs.needs_session)
                   /\ lpc' = "msg"
    /\ UNCHANGED <<buildVars, fs, result, openVars, txtVars, largs, lret, writerVars>>

\* out: close(fd); return ret;
LegOut ==
    /\ result = "running" /\ lpc = "out"
    /\ lret' = lloc.ret
    /\ lpc' = "ret"
    /\ UNCHANGED <<buildVars, fs, sessions, result, openVars, txtVars, largs, lpos,
                   lloc, writerVars>>

\* ------------------------------------------------------------------------
\* write_task_info, write_fork_info, write_session_info, write_dlopen_info:
\* fopen(fname, "a"); fprintf(fp, ...); fclose(fp);
\* The stream is fully buffered: fprintf puts the line in the stream's buffer,
\* a full buffer is written out with write(2), fclose writes what is left.
\* The file is open with O_APPEND: each write(2) lands whole at the end.
\* ------------------------------------------------------------------------
AllWriters == {1, 2}
W_DIR == UFTRACE_DIR_NAME

CallLine(c) ==
    CASE c.op = "task" -> TaskLine(c.msg)
      [] c.op = "fork" -> ForkLine(c.msg)
      [] c.op = "sess" -> SessLine(c.msg, c.name)
      [] c.op = "dlop" -> DlopLine(c.msg, c.name)

NoCall == [op |-> "none"]
Min(a, b) == IF a <= b THEN a ELSE b

\* fp = fopen(fname, "a"); if (fp == NULL) pr_err("cannot open %s", fname);
WriteFopen(p, c) ==
    /\ wpc[p] = "idle"
    /\ wcall' = [wcall EXCEPT ![p] = c]
    /\ \E ok \in BOOLEAN :
        IF ok
        THEN /\ wpc' = [wpc EXCEPT ![p] = "opened"]
             /\ fs' = [fs EXCEPT ![W_DIR].txt =
                          IF @.st = "present" THEN @ ELSE [st |-> "present", data |-> <<>>]]
        ELSE /\ wpc' = [wpc EXCEPT ![p] = "exit"]
             /\ UNCHANGED fs
    /\ UNCHANGED <<buildVars, sessions, result, openVars, txtVars, legacyVars, wbuf,
                   wpend>>

\* what the stream holds once `out` is put after `held`, and what does not
\* fit before the next write(2)
BufferPut(held, out) ==
    LET take == Min(StdioBufSize - Len(held), Len(out))
    IN  [buf |-> held \o SubSeq(out, 1, take), rest |-> From(out, take + 1)]

\* snprint_timestamp(...); fprintf(fp, "...\n", ...);
WriteFprintf(p) ==
    /\ wpc[p] = "opened"
    /\ \E b \in {BufferPut(<<>>, CallLine(wcall[p]))} :
           /\ wbuf' = [wbuf EXCEPT ![p] = b.buf]
           /\ wpend' = [wpend EXCEPT ![p] = b.rest]
           /\ wpc' = [wpc EXCEPT ![p] = IF b.rest = <<>> THEN "printed" ELSE "full"]
    /\ UNCHANGED <<buildVars, fs, sessions, result, openVars, txtVars, legacyVars,
                   wcall>>

\* inside fprintf: the buffer is full, it is written out and filling goes on
WriteOverflow(p) ==
    /\ wpc[p] = "full"
    /\ fs' = [fs EXCEPT ![W_DIR].txt.data = @ \o wbuf[p]]
    /\ \E b \in {BufferPut(<<>>, wpend[p])} :
           /\ wbuf' = [wbuf EXCEPT ![p] = b.buf]
           /\ wpend' = [wpend EXCEPT ![p] = b.rest]
           /\ wpc' = [wpc EXCEPT ![p] = IF b.rest = <<>> THEN "printed" ELSE "full"]
    /\ UNCHANGED <<buildVars, sessions, result, openVars, txtVars, legacyVars, wcall>>

\* fclose(fp): what the buffer holds is written out
WriteFclose(p) ==
    /\ wpc[p] = "printed"
    /\ fs' = [fs EXCEPT ![W_DIR].txt.data = @ \o wbuf[p]]
    /\ wbuf' = [wbuf EXCEPT ![p] = <<>>]
    /\ wpc' = [wpc EXCEPT ![p] = "done"]
    /\ UNCHANGED <<buildVars, sessions, result, openVars, txtVars, legacyVars, wcall,
                   wpend>>

\* Faulty variant of CloseDataFile: opts->exename is left as it is.
CloseDataFile_KeepName ==
    /\ result = "ret0" /\ opc = "done"
    /\ handle' = [handle EXCEPT !.kernel.pevent = NULL, !.info.live = FALSE]
    /\ sessions' = RB_ROOT
    /\ opc' = "closed"
    /\ UNCHANGED <<buildVars, fs, result, opts, buf, again, warned, calls, txtVars,
                   legacyVars, writerVars>>

\* ------------------------------------------------------------------------
\* close_data_file
\* ------------------------------------------------------------------------
CloseDataFile ==
    /\ result = "ret0" /\ opc = "done"
    /\ opts' = [opts EXCEPT !.exename = IF @ = handle.info.exename THEN NULL ELSE @]
    /\ handle' = [handle EXCEPT !.kernel.pevent = NULL, !.info.live = FALSE]
    /\ sessions' = RB_ROOT
    /\ opc' = "closed"
    /\ UNCHANGED <<buildVars, fs, result, buf, again, warned, calls, txtVars,
                   legacyVars, writerVars>>

\* ------------------------------------------------------------------------
\* Specifications
\* ------------------------------------------------------------------------
NoArgs == [dirname |-> NULL, needs_session |-> FALSE, sym_rel_addr |-> FALSE]
IdleTxt == /\ tpc = "idle" /\ targs = NoArgs /\ tpos = 0
           /\ tloc = GarbageLocals(0) /\ tret = 0
IdleLegacy == /\ lpc = "idle" /\ largs = NoArgs /\ lpos = 0
              /\ lloc = LegacyLocals /\ lret = 0
IdleWriters == /\ wpc = [p \in AllWriters |-> "idle"]
               /\ wcall = [p \in AllWriters |-> NoCall]
               /\ wbuf = [p \in AllWriters |-> <<>>]
               /\ wpend = [p \in AllWriters |-> <<>>]
IdleOpen == /\ opts = [dirname |-> W_DIR, exename |-> NULL, depth |-> 0]
            /\ handle = ZeroHandle /\ opc = "idle" /\ buf = <<>>
            /\ again = FALSE /\ warned = FALSE /\ calls = <<>>
AnyBuild == /\ host_endian \in Endians
            /\ host_bitfield \in BitfieldLayouts
            /\ host_long \in LongWidths

\* --- open_data_file on a data directory, then close_data_file -------------
InitOpen ==
    /\ AnyBuild
    /\ fs = [d \in Dirs |-> UnknownDir]
    /\ opts \in [dirname : Dirs, exename : {NULL, "argv.exename"}, depth : {7}]
    /\ handle = ZeroHandle
    /\ sessions = RB_ROOT
    /\ opc = "fopen"
    /\ buf = InfoPath(opts.dirname)
    /\ again = FALSE /\ warned = FALSE /\ calls = <<>>
    /\ result = "running"
    /\ IdleTxt /\ IdleLegacy /\ IdleWriters

NextOpen ==
    \/ OpenFopen \/ OpenSetup \/ OpenFread \/ OpenCheckMagic \/ OpenCheckDataOrder
    \/ OpenByteSwap \/ OpenCheckVersion \/ OpenReadInfo \/ OpenSessions
    \/ OpenAfterTxt \/ OpenAfterLegacy \/ OpenFinish \/ CloseDataFile
    \/ TxtFopen \/ TxtGetline
    \/ LegOpen \/ LegReadMsg \/ LegReadSess \/ LegReadName \/ LegReadPad
    \/ LegReadTask \/ LegOut

Spec == InitOpen /\ [][NextOpen]_vars

\* --- read_task_file alone, on every name length -------------------------------
NameOfLen(n) == [i \in 1..n |-> "x"]
LegacyFilesByName ==
    {[st |-> "present", data |-> SessionMessage(SESS1, NameOfLen(n)) \o TidMessage(TASK1)] :
        n \in 0..MaxNameLen}

\* a session whose name is one byte longer than the reader's buf
LegacyFilesOversize ==
    {[st |-> "present",
      data |-> SessionMessage(SESS1, NameOfLen(SIZEOF_BUF + 1)) \o TidMessage(TASK1)]}

InitLegacy ==
    /\ host_endian = ELFDATA2LSB /\ host_bitfield = "lsb_first"
    /\ host_long \in LongWidths
    /\ \E f \in LegacyFilesByName \cup LegacyFilesOversize \cup LegacyFileChoices
                 \cup {NoFile} :
          fs = [d \in Dirs |-> IF d = W_DIR THEN [UnknownDir EXCEPT !.task = f]
                               ELSE UnknownDir]
    /\ sessions = RB_ROOT
    /\ result = "running"
    /\ IdleOpen /\ IdleTxt /\ IdleWriters
    /\ lpc = "open"
    /\ largs \in [dirname : {W_DIR}, needs_session : BOOLEAN, sym_rel_addr : {FALSE}]
    /\ lpos = 0 /\ lloc = LegacyLocals /\ lret = 0

NextLegacy ==
    \/ LegOpen \/ LegReadMsg \/ LegReadSess \/ LegReadName \/ LegReadPad
    \/ LegReadTask \/ LegOut

SpecLegacy == InitLegacy /\ [][NextLegacy]_vars

\* --- one write_*_info call, then read_task_txt_file ------------------------
TimeChoices == {U64(0), U64(1), U64(NSEC_PER_SEC - 1), U64(NSEC_PER_SEC), TS1,
                U64Mul(<<LIMB - 1, HALF - 1, 0, 0>>, NSEC_PER_SEC),
                U64Mul(<<0, HALF, 0, 0>>, NSEC_PER_SEC),
                U64Mul(<<0, 0, 1, 0>>, NSEC_PER_SEC), <<0, 0, 0, HALF>>, U64Max}
TidChoices == {0, 5, 0 - 1, 2147483647}
PidChoices == {5, 32768, 0 - 2147483647}
LONGNAME == <<"/", "o", "p", "t", "/", "a", "/", "v", "e", "r", "y", "/", "l", "o", "n", "g", "/", "p", "a", "t", "h", "/", "t", "o", "/", "t", "h", "e", "/", "p", "r", "o", "g", "r", "a", "m">>

TextCalls ==
    {[op |-> "task", msg |-> TaskMsg(t, p, ts)] :
        t \in TidChoices, p \in PidChoices, ts \in TimeChoices}
    \cup {[op |-> "fork", msg |-> TaskMsg(6, 5, ts)] : ts \in {TS1, U64Max}}
    \cup {[op |-> "sess", msg |-> SESS1, name |-> n] : n \in {EXE1, LONGNAME}}
    \cup {[op |-> "dlop", msg |-> m, name |-> LIB1] : m \in {DLOP1, DLOP2}}

InitText ==
    /\ host_endian = ELFDATA2LSB /\ host_bitfield = "lsb_first"
    /\ host_long \in LongWidths
    /\ \E f \in {NoFile, [st |-> "present", data |-> SessLine(SESS1, EXE1)]} :
          fs = [d \in Dirs |-> IF d = W_DIR THEN [UnknownDir EXCEPT !.txt = f]
                               ELSE UnknownDir]
    /\ sessions = RB_ROOT
    /\ result = "running"
    /\ IdleOpen /\ IdleTxt /\ IdleLegacy /\ IdleWriters

\* the caller: read_task_txt_file(&sessions, dirname, needs_session, false)
TextStartRead ==
    /\ result = "running" /\ tpc = "idle"
    /\ wpc[1] \in {"done", "exit"}
    /\ tpc' = "fopen"
    /\ \E ns \in BOOLEAN :
          targs' = [dirname |-> W_DIR, needs_session |-> ns, sym_rel_addr |-> FALSE]
    /\ UNCHANGED <<buildVars, fs, sessions, result, openVars, tpos, tloc, tret,
                   legacyVars, writerVars>>

NextText ==
    \/ \E c \in TextCalls : WriteFopen(1, c)
    \/ WriteFprintf(1) \/ WriteOverflow(1) \/ WriteFclose(1)
    \/ TextStartRead \/ TxtFopen \/ TxtGetline

SpecText == InitText /\ [][NextText]_vars

\* --- several writers appending to the same task.txt -----------------------
AppendCalls(p) ==
    {[op |-> "task", msg |-> TaskMsg(p, 5, TS1)],
     [op |-> "fork", msg |-> TaskMsg(p, 5, TS1)],
     [op |-> "sess", msg |-> [SESS1 EXCEPT !.task.pid = p], name |-> EXE1],
     [op |-> "sess", msg |-> [SESS1 EXCEPT !.task.pid = p], name |-> LONGNAME],
     [op |-> "dlop", msg |-> [DLOP1 EXCEPT !.task.tid = p], name |-> LIB1]}

InitAppend ==
    /\ host_endian = ELFDATA2LSB /\ host_bitfield = "lsb_first"
    /\ host_long \in LongWidths
    /\ fs = [d \in Dirs |-> IF d = W_DIR THEN [UnknownDir EXCEPT !.txt = NoFile]
                            ELSE UnknownDir]
    /\ sessions = RB_ROOT
    /\ result = "running"
    /\ IdleOpen /\ IdleTxt /\ IdleLegacy /\ IdleWriters

NextAppend ==
    \E p \in AllWriters :
        \/ \E c \in AppendCalls(p) : WriteFopen(p, c)
        \/ WriteFprintf(p) \/ WriteOverflow(p) \/ WriteFclose(p)

SpecAppend == InitAppend /\ [][NextAppend]_vars

\* ------------------------------------------------------------------------
\* Properties of open_data_file (specification Spec)
\* ------------------------------------------------------------------------
StageOrder == <<"fopen", "setup", "fread", "magic", "order", "swap", "version",
                "info", "sessions", "txt_wait", "legacy_wait", "args", "done",
                "closed">>
StageRank(s) == CHOOSE i \in 1..Len(StageOrder) : StageOrder[i] = s
Past(s) == StageRank(opc) > StageRank(s)

\* the task logs the process tried to open, in order
ReaderCalls == SelectSeq(calls, LAMBDA c : c[2] # "info")
InfoCalls == SelectSeq(calls, LAMBDA c : c[2] = "info")
SessionInfoBit == TestBit(handle.hdr.feat_mask, TASK_SESSION_BIT, host_endian)

\* C1: with the session-info bit set the text reader (task.txt) is tried first
\* and the legacy reader (task) is tried if and only if the text reader
\* returned failure; with the bit clear neither reader runs.
C1_TextFirstLegacyOnFailure ==
    /\ ~Past("sessions") => ReaderCalls = <<>>
    /\ Past("sessions") =>
          /\ ~SessionInfoBit => ReaderCalls = <<>>
          /\ ReaderCalls \in {<<>>, <<<<opts.dirname, "task.txt">>>>,
                              <<<<opts.dirname, "task.txt">>, <<opts.dirname, "task">>>>}
          /\ Len(ReaderCalls) = 2 => tret < 0
          /\ (SessionInfoBit /\ Past("txt_wait")) => Len(ReaderCalls) >= 1
          /\ (SessionInfoBit /\ Past("legacy_wait")) =>
                (Len(ReaderCalls) = 2 <=> tret < 0)

C1_Witness ==
    /\ opc = "done" /\ SessionInfoBit /\ tret < 0
    /\ ReaderCalls = <<<<opts.dirname, "task.txt">>, <<opts.dirname, "task">>>>

\* C2: with a valid header that has the session-info bit set and neither
\* task.txt nor task present, open_data_file prints the warning, leaves the
\* registry empty and returns 0.
BothLogsAbsent ==
    /\ Past("sessions") /\ SessionInfoBit
    /\ fs[opts.dirname].txt.st = "absent"
    /\ fs[opts.dirname].task.st = "absent"

C2_BothLogsAbsent ==
    BothLogsAbsent =>
        /\ result \in {"running", "ret0"}
        /\ sessions = RB_ROOT
        /\ Past("legacy_wait") => warned
        /\ opc = "args" => result = "running"
        /\ Past("args") => result = "ret0"

C2_Witness == BothLogsAbsent /\ opc = "done" /\ result = "ret0" /\ warned

\* C3: the version read from the header, after the byte swap if one is needed,
\* stops open_data_file exactly when it is below UFTRACE_FILE_VERSION_MIN or
\* above UFTRACE_FILE_VERSION; MIN and MAX themselves pass.
NormalVersion == Value(handle.hdr.version, host_endian)
VersionInRange == /\ UFTRACE_FILE_VERSION_MIN <= NormalVersion
                  /\ NormalVersion <= UFTRACE_FILE_VERSION

C3_VersionRange ==
    /\ Past("version") => VersionInRange
    /\ (opc = "version" /\ result = "exit") => ~VersionInRange

C3_Witness ==
    /\ opc = "info" /\ handle.needs_byte_swap
    /\ NormalVersion = UFTRACE_FILE_VERSION_MIN

\* C4 (as amended): the info file is opened at most twice; the second open is of
\* the old default directory and happens only after the first one, of the
\* default directory, failed with ENOENT; any other failure ends the process at
\* once; when the second open fails open_data_file fails; when it succeeds
\* opts->dirname and handle->dirname are the old default directory, the task
\* logs are read from it, and open_data_file goes on to check the header found
\* there: it returns 0 only if that header and the info behind it are good.
OldInfo == InfoPath(UFTRACE_DIR_OLD_NAME)
HeaderGood(d) ==
    /\ fs[d].info = "ok" /\ fs[d].hdr.st = "ok"
    /\ fs[d].hdr.h.magic = UFTRACE_MAGIC_STR
    /\ VersionInRange
    /\ fs[d].blocks = "ok"
HeaderBad(d) ==
    \/ fs[d].hdr.st = "short"
    \/ fs[d].hdr.h.magic # UFTRACE_MAGIC_STR
    \/ opc = "version" /\ ~VersionInRange
    \/ fs[d].blocks = "bad"

C4_DirectoryFallback ==
    /\ Len(InfoCalls) <= 2
    /\ Len(InfoCalls) = 2 =>
          /\ again
          /\ InfoCalls = <<InfoPath(UFTRACE_DIR_NAME), OldInfo>>
          /\ fs[UFTRACE_DIR_NAME].info = "ENOENT"
    /\ again => Len(InfoCalls) >= 1 /\ InfoCalls[1] = InfoPath(UFTRACE_DIR_NAME)
    /\ (\E d \in Dirs : InfoCalls = <<InfoPath(d)>> /\ fs[d].info = "EACCES") =>
          result = "exit"
    /\ (\E d \in Dirs : InfoCalls = <<InfoPath(d)>> /\ fs[d].info = "ENOENT"
                          /\ d # UFTRACE_DIR_NAME) =>
          result \in {"retm1", "exit"}
    /\ (Len(InfoCalls) = 2 /\ fs[UFTRACE_DIR_OLD_NAME].info # "ok") =>
          /\ result \in {"retm1", "exit"}
          /\ opc = "fopen" /\ handle.fp = NULL
          /\ result = "retm1" <=> (opts.exename = NULL
                                   /\ fs[UFTRACE_DIR_OLD_NAME].info = "ENOENT")
    /\ (Len(InfoCalls) = 2 /\ fs[UFTRACE_DIR_OLD_NAME].info = "ok") =>
          /\ handle.fp = OldInfo
          /\ Past("setup") =>
                /\ opts.dirname = UFTRACE_DIR_OLD_NAME
                /\ handle.dirname = UFTRACE_DIR_OLD_NAME
                /\ \A i \in 1..Len(ReaderCalls) :
                      ReaderCalls[i][1] = UFTRACE_DIR_OLD_NAME
          /\ (Past("info") \/ result = "ret0") => HeaderGood(UFTRACE_DIR_OLD_NAME)
          /\ (result = "exit" /\ ~Past("info")) => HeaderBad(UFTRACE_DIR_OLD_NAME)

C4_Witness ==
    /\ again /\ result = "ret0" /\ opc = "done"
    /\ InfoCalls = <<InfoPath(UFTRACE_DIR_NAME), OldInfo>>
    /\ Len(ReaderCalls) = 2

\* C4 as first stated: whenever the second open succeeds, open_data_file
\* succeeds.
C4_RetrySuccessIsOpenSuccess ==
    (Len(InfoCalls) = 2 /\ fs[UFTRACE_DIR_OLD_NAME].info = "ok") =>
        result \in {"running", "ret0"}

\* C5: the stages are passed in order and the call ends with 0 or with a
\* failure; no task log is opened and nothing is in the registry unless the info
\* file was opened, its magic is UFTRACE_MAGIC_STR byte for byte, its version is
\* in range and read_ftrace_info succeeded; a header with another magic stops
\* the process whatever else it holds.
MagicMatches(d) ==
    \A i \in 1..UFTRACE_MAGIC_LEN : fs[d].hdr.h.magic[i] = UFTRACE_MAGIC_STR[i]

C5_Staged ==
    /\ opc \in {StageOrder[i] : i \in 1..Len(StageOrder)}
    /\ result \in {"running", "ret0", "retm1", "exit", "abort"}
    /\ result = "ret0" <=> Past("args")
    /\ result = "retm1" => opc = "fopen"
    /\ opc = "txt_wait" => tpc # "idle" /\ lpc = "idle"
    /\ opc = "legacy_wait" => lpc # "idle" /\ tpc = "idle"
    /\ opc \notin {"txt_wait", "legacy_wait"} => tpc = "idle" /\ lpc = "idle"
    /\ Past("fopen") => handle.fp # NULL /\ fs[handle.fp[1]].info = "ok"
    /\ Past("fread") => fs[handle.fp[1]].hdr.st = "ok"
    /\ Past("magic") => MagicMatches(handle.fp[1])
    /\ Past("version") => VersionInRange
    /\ Past("info") => fs[handle.fp[1]].blocks = "ok"
    /\ (ReaderCalls # <<>> \/ sessions # RB_ROOT) => Past("sessions")
    /\ (Past("fread") /\ ~MagicMatches(handle.fp[1])) =>
          opc = "magic" /\ result \in {"running", "exit"}
    /\ (opc = "magic" /\ result = "exit") => ~MagicMatches(handle.fp[1])

C5_Witness ==
    /\ opc = "done" /\ result = "ret0"
    /\ sessions.sessions # <<>> /\ sessions.tasks # <<>>

\* C8: when the header's endian tag is not the running machine's byte order the
\* byte-swap flag is set and version, feat_mask, info_mask and max_stack hold
\* the bytes of the file in reverse; when the tag is the machine's the flag is
\* clear and the four fields hold the bytes of the file as they are.
ByteReversed(a, b) ==
    /\ Len(a) = Len(b)
    /\ \A i \in 1..Len(a) : a[i] = b[Len(b) + 1 - i]
OnDisk == fs[handle.fp[1]].hdr.h
MaxStackKept == ~Past("args") \/ TestBit(handle.hdr.feat_mask, MAX_STACK_BIT, host_endian)

C8_ByteSwap ==
    /\ Past("order") => handle.needs_byte_swap = (OnDisk.endian # host_endian)
    /\ Past("swap") =>
          IF OnDisk.endian # host_endian
          THEN /\ ByteReversed(handle.hdr.version, OnDisk.version)
               /\ ByteReversed(handle.hdr.feat_mask, OnDisk.feat_mask)
               /\ ByteReversed(handle.hdr.info_mask, OnDisk.info_mask)
               /\ MaxStackKept => ByteReversed(handle.hdr.max_stack, OnDisk.max_stack)
          ELSE /\ handle.hdr.version = OnDisk.version
               /\ handle.hdr.feat_mask = OnDisk.feat_mask
               /\ handle.hdr.info_mask = OnDisk.info_mask
               /\ MaxStackKept => handle.hdr.max_stack = OnDisk.max_stack
    /\ Past("fread") => /\ handle.hdr.magic = OnDisk.magic
                        /\ handle.hdr.endian = OnDisk.endian

C8_Witness ==
    /\ opc = "done" /\ handle.needs_byte_swap
    /\ OnDisk.endian # host_endian
    /\ handle.hdr.info_mask # OnDisk.info_mask
    /\ handle.hdr.max_stack # OnDisk.max_stack

\* C9 (as amended): the bit-swap flag is decided by the running build alone:
\* it is set exactly when the build's compiler does not put the magic field of
\* a record in bits 3 to 5 of the second word, whatever bit-field layout the
\* file was produced with.
C9_BitSwapIsHostOnly ==
    Past("order") => handle.needs_bit_swap = (host_bitfield = "msb_first")

C9_Witness ==
    /\ Past("order") /\ handle.needs_bit_swap
    /\ fs[handle.fp[1]].hdr.built = host_bitfield

\* C9 as first stated: the flag is set for a file produced with the other
\* bit-field layout and clear for a file produced with the build's own.
C9_BitSwapFollowsFile ==
    Past("order") =>
        handle.needs_bit_swap = (fs[handle.fp[1]].hdr.built # host_bitfield)

\* ------------------------------------------------------------------------
\* Properties of the text log (specification SpecText)
\* ------------------------------------------------------------------------
TaskWrittenAndRead ==
    /\ wpc[1] = "done" /\ wcall[1].op = "task"
    /\ tpc = "ret" /\ tret = 0
WrittenTask == [tid |-> wcall[1].msg.tid, pid |-> wcall[1].msg.pid,
                time |-> wcall[1].msg.time, fork |-> FALSE]

\* C6: for every tid, pid and 64-bit timestamp, the line write_task_info
\* appends is read back by read_task_txt_file as one task with the same tid,
\* pid and timestamp.
C6_TaskRoundTrip ==
    TaskWrittenAndRead => sessions.tasks = <<WrittenTask>>

\* C6 where a long has 64 bits: the same round trip holds there for every
\* timestamp.
C6_TaskRoundTripLong64 ==
    (TaskWrittenAndRead /\ host_long = 64) => sessions.tasks = <<WrittenTask>>

\* C6 where a long has 32 bits: the round trip fails, and only fails, for
\* the timestamps of 2^31 seconds and more.
C6_TaskRoundTripLong32 ==
    (TaskWrittenAndRead /\ host_long = 32) =>
        /\ Len(sessions.tasks) = 1
        /\ sessions.tasks[1].tid = wcall[1].msg.tid
        /\ sessions.tasks[1].pid = wcall[1].msg.pid
        /\ sessions.tasks[1].time = wcall[1].msg.time
              <=> U64Less(U64DivModNsec(wcall[1].msg.time).q, <<0, HALF, 0, 0>>)

C6_Witness ==
    /\ TaskWrittenAndRead /\ host_long = 32
    /\ wcall[1].msg.time = U64Mul(<<0, HALF, 0, 0>>, NSEC_PER_SEC)
    /\ Len(sessions.tasks) = 1
    /\ sessions.tasks[1].time # wcall[1].msg.time

\* ------------------------------------------------------------------------
\* Properties of read_task_file (specification SpecLegacy)
\* ------------------------------------------------------------------------
\* a SESSION message was read to its end and the next envelope is next
SessionConsumed ==
    /\ lpc = "msg" /\ lloc.nmsg >= 1
    /\ lloc.msg.magic = FTRACE_MSG_MAGIC /\ lloc.msg.type = FTRACE_MSG_SESSION

\* C7: after a SESSION payload with name length n the reader consumes n bytes
\* of name and then 8 - n mod 8 bytes of padding when n mod 8 is not 0, none
\* when it is 0: together the smallest multiple of 8 that is at least n; the
\* next envelope is read from there.
C7_SessionPadding ==
    /\ SessionConsumed =>
          LET n == lloc.smsg.namelen
              consumed == lpos - lloc.sess_end
          IN  /\ lloc.name_read = n
              /\ n % 8 # 0 => lloc.pad_read = 8 - (n % 8)
              /\ n % 8 = 0 => lloc.pad_read = 0
              /\ consumed = lloc.name_read + lloc.pad_read
              /\ consumed % 8 = 0 /\ consumed >= n /\ consumed - 8 < n
              /\ n = 5 => lloc.pad_read = 3
              /\ n = 8 => lloc.pad_read = 0
    /\ (lpc = "ret" /\ fs[W_DIR].task \in LegacyFilesByName) =>
          /\ lret = 0
          /\ Len(sessions.tasks) = 1
          /\ sessions.tasks[1].tid = TASK1.tid /\ sessions.tasks[1].time = TASK1.time

C7_Witness ==
    /\ SessionConsumed /\ lloc.smsg.namelen = 5 /\ lloc.pad_read = 3
    /\ lpos = lloc.sess_end + 8

\* ------------------------------------------------------------------------
\* Properties of concurrent appenders (specification SpecAppend)
\* ------------------------------------------------------------------------
AllAppended == \A p \in AllWriters : wpc[p] = "done"

\* C10: whatever the interleaving of the write_*_info calls of several
\* processes, task.txt ends up holding one whole line for each call: the lines
\* of the calls, one after the other in some order.
C10_WholeLines ==
    AllAppended =>
        fs[W_DIR].txt.data \in {CallLine(wcall[1]) \o CallLine(wcall[2]),
                                CallLine(wcall[2]) \o CallLine(wcall[1])}

\* C10 for lines that fit the stream's buffer: they are written with one
\* write(2) each and are never torn.
C10_WholeLinesWhenBuffered ==
    (AllAppended /\ \A p \in AllWriters : Len(CallLine(wcall[p])) <= StdioBufSize) =>
        fs[W_DIR].txt.data \in {CallLine(wcall[1]) \o CallLine(wcall[2]),
                                CallLine(wcall[2]) \o CallLine(wcall[1])}

\* a torn file: the first line that ends in it is not a line of any call
C10_Witness ==
    /\ AllAppended
    /\ \A p \in AllWriters :
          NextLine(fs[W_DIR].txt.data, 1) # CallLine(wcall[p])

\* ------------------------------------------------------------------------
\* Properties of read_task_txt_file (specification SpecText)
\* ------------------------------------------------------------------------
\* the line the next turn of the getline loop reads, <<>> when there is none
LineAhead ==
    IF tpc = "getline" /\ result = "running"
          /\ tpos <= Len(fs[targs.dirname].txt.data)
    THEN NextLine(fs[targs.dirname].txt.data, tpos) ELSE <<>>

\* the word after " sid=" in a line
SidOfLine(line) ==
    SubSeq(line, strstr(line, STR_sid) + Len(STR_sid),
           SkipWhile(line, strstr(line, STR_sid) + Len(STR_sid), "nonspace") - 1)

\* the sessions of the registry that have the session id sid
SessionsOfSid(sid) == {i \in 1..Len(sessions.sessions) : sessions.sessions[i].sid = sid}

\* what a turn of the loop may do to the libraries of the sessions: nothing,
\* but for the one session `to`, which gets one more
LibrariesKept(to) ==
    /\ Len(sessions'.sessions) >= Len(sessions.sessions)
    /\ \A i \in 1..Len(sessions'.sessions) :
          IF i > Len(sessions.sessions) THEN sessions'.sessions[i].dlopen = <<>>
          ELSE IF i = to
          THEN /\ Len(sessions'.sessions[i].dlopen) = Len(sessions.sessions[i].dlopen) + 1
               /\ sessions'.sessions[i].sid = sessions.sessions[i].sid
          ELSE sessions'.sessions[i] = sessions.sessions[i]

C11_DlopStep ==
    IF /\ HasTag(LineAhead, STR_DLOP) /\ targs.needs_session
       /\ strstr(LineAhead, STR_libname) # 0
    THEN IF SessionsOfSid(SidOfLine(LineAhead)) = {}
         THEN result' = "abort" /\ sessions' = sessions
         ELSE /\ result' = "running"
              /\ \E to \in SessionsOfSid(SidOfLine(LineAhead)) :
                    /\ LibrariesKept(to)
                    /\ sessions'.sessions[to].dlopen[Len(sessions'.sessions[to].dlopen)].libname
                           = QuotedName(LineAhead, strstr(LineAhead, STR_libname))
    ELSE LibrariesKept(0)

\* C11: with sessions asked for, the library of a DLOP line goes to a session
\* the registry already holds under the line's session id and to no other; when
\* the registry holds none the process aborts and the registry is as it was; no
\* other line adds a library.
C11_DlopOnlyToKnownSession == [][C11_DlopStep]_vars

C11_Witness ==
    /\ result = "abort" /\ tpc = "getline" /\ targs.needs_session
    /\ wcall[1].op = "dlop" /\ wpc[1] = "done"
    /\ Len(sessions.sessions) = 1
    /\ sessions.sessions[1].dlopen = <<>>
    /\ sessions.sessions[1].sid # wcall[1].msg.sid

UntaggedAhead ==
    /\ LineAhead # <<>>
    /\ \A tag \in {STR_TASK, STR_FORK, STR_SESS, STR_DLOP} : ~HasTag(LineAhead, tag)

\* C12: a line whose first four characters are none of TASK, FORK, SESS, DLOP
\* is skipped: the registry and the reader's locals are as before, the process
\* runs on, no return value is set and the reader stands at the next line.
C12_UntaggedLineIgnored ==
    [][UntaggedAhead =>
          /\ sessions' = sessions /\ tloc' = tloc
          /\ result' = "running" /\ tret' = tret
          /\ tpc' = "getline" /\ tpos' = tpos + Len(LineAhead)]_vars

C12_Witness ==
    /\ tpc = "ret" /\ tret = 0 /\ result = "running"
    /\ fs[targs.dirname].txt.data = LINE_OTHER \o LINE_SHORT \o TaskLine(TASK1)
    /\ Len(sessions.tasks) = 1

\* ------------------------------------------------------------------------
\* Properties of read_task_file
\* ------------------------------------------------------------------------
LegData == fs[largs.dirname].task.data

\* the bytes the next read_all of the reader asks for, -1 when it reads none
ReadSize ==
    IF result # "running" THEN 0 - 1
    ELSE CASE lpc = "msg" -> SIZEOF_MSG
           [] lpc = "sess" -> SIZEOF_SESS
           [] lpc = "name" -> lloc.smsg.namelen
           [] lpc = "pad" -> IF lloc.smsg.namelen % 8 = 0 THEN 0 - 1
                             ELSE 8 - (lloc.smsg.namelen % 8)
           [] lpc \in {"tid", "fork"} -> SIZEOF_TASK
           [] OTHER -> 0 - 1

\* the next read_all finds fewer bytes than it asks for
ReadFails == ReadSize >= 0 /\ lpos + ReadSize - 1 > Len(LegData)

EnvelopeAhead ==
    lpc = "msg" /\ result = "running" /\ ~ReadFails
    /\ StructAt(LegData, lpos, SIZEOF_MSG, "msg").magic = FTRACE_MSG_MAGIC

UnknownTypeAhead ==
    /\ EnvelopeAhead
    /\ StructAt(LegData, lpos, SIZEOF_MSG, "msg").type
          \notin {FTRACE_MSG_SESSION, FTRACE_MSG_TID, FTRACE_MSG_FORK_END}

\* C13 as stated: an unknown type and every failed read, of an envelope as of
\* anything else, ends the file with -1.
C13_AnyFailedReadFails ==
    [][(ReadFails \/ UnknownTypeAhead)
          => lpc' = "out" /\ lloc'.ret = 0 - 1 /\ sessions' = sessions]_vars

\* C13: an unknown type and a failed read of a payload, a name or a padding
\* end the file with -1; a failed read of an envelope ends it with 0; in both
\* cases no message is processed afterwards and the function returns that value.
C13_FailedReadEndsFile ==
    [][/\ (ReadFails \/ UnknownTypeAhead)
            => /\ lpc' = "out" /\ sessions' = sessions
               /\ lloc'.ret = IF lpc = "msg" /\ ReadFails THEN 0 ELSE 0 - 1
       /\ (lpc = "out" /\ result = "running")
            => lpc' = "ret" /\ lret' = lloc.ret /\ sessions' = sessions
       /\ lpc = "ret" => lpc' = "ret" /\ lret' = lret /\ lloc' = lloc]_vars

C13_Witness ==
    /\ lpc = "ret" /\ lret = 0 - 1
    /\ LegData = TidMessage(TASK1) \o MsgCells(FTRACE_MSG_MAGIC, FTRACE_MSG_TID)
                     \o SubSeq(TaskCells(TASK1), 1, 4)
    /\ lloc.nmsg = 2 /\ Len(sessions.tasks) = 1

\* the legacy reader stopped at an envelope of a wrong magic
BadMagicSeen ==
    /\ lloc.nmsg >= 1 /\ lloc.msg.magic # FTRACE_MSG_MAGIC
    /\ fs[largs.dirname].task.st = "present"

\* C14: when the legacy file holds an envelope of a wrong magic, read_task_file
\* fails and the open ends with the registry it has when there is no task
\* file, the empty one, also when valid messages precede the envelope.
C14_BadMagicLeavesNoTrace ==
    (opc = "done" /\ BadMagicSeen) => (lret < 0 /\ warned /\ sessions = RB_ROOT)

\* what the code does then: it fails and warns, and the tasks of the
\* messages before the envelope stay in the registry
C14_Witness ==
    /\ opc = "done" /\ BadMagicSeen /\ lret < 0 /\ warned
    /\ lloc.nmsg = 2 /\ Len(sessions.tasks) = 1

\* ------------------------------------------------------------------------
\* Properties of the opened handle
\* ------------------------------------------------------------------------
\* the header of the file says the maximum stack depth is stored in it
MaxStackStored == TestBit(OnDisk.feat_mask, MAX_STACK_BIT, OnDisk.endian)

\* C15: after a successful open the handle's maximum stack depth is the
\* header's, read in the byte order the header names, when the feature mask
\* has MAX_STACK, and MCOUNT_RSTACK_MAX when it has not.
C15_MaxStack ==
    (opc = "done" /\ result = "ret0") =>
        Value(handle.hdr.max_stack, host_endian)
            = IF MaxStackStored THEN Value(OnDisk.max_stack, OnDisk.endian)
              ELSE MCOUNT_RSTACK_MAX

C15_Witness ==
    /\ opc = "done" /\ result = "ret0"
    /\ ~MaxStackStored
    /\ OnDisk.endian # host_endian
    /\ Value(OnDisk.max_stack, OnDisk.endian) # MCOUNT_RSTACK_MAX
    /\ Value(handle.hdr.max_stack, host_endian) = MCOUNT_RSTACK_MAX

\* C16: an opts->exename the caller supplied is changed by no step of open
\* and close; one the caller left unset points to the handle's info exename
\* from the reading of the info on, for as long as that storage lives, and is
\* unset otherwise: before the info is read and after close_data_file.
C16_ExenameOwnership ==
    [][IF opts.exename = "argv.exename"
       THEN opts'.exename = "argv.exename"
       ELSE opts'.exename = IF handle'.info.live THEN handle'.info.exename
                            ELSE NULL]_vars

C16_Witness ==
    /\ opc = "closed"
    /\ opts.exename = NULL
    /\ handle.info.exename # NULL /\ ~handle.info.live

\* C17: read_task_txt_file fails only when task.txt cannot be opened: of a
\* task.txt that is there it returns 0, or the process has ended inside it, and
\* the legacy task file is opened only in a directory that has no task.txt.
C17_TextFailsOnlyUnopened ==
    /\ tret < 0 => fs[targs.dirname].txt.st = "absent"
    /\ tpc = "ret" =>
          IF fs[targs.dirname].txt.st = "absent" THEN tret < 0 ELSE tret = 0
    /\ (tpc = "getline" /\ result # "running") => result \in {"exit", "abort"}
    /\ \A i \in 1..Len(calls) :
          calls[i][2] = "task" => fs[calls[i][1]].txt.st = "absent"

C17_Witness ==
    /\ opc = "done" /\ tret = 0
    /\ Len(sessions.tasks) >= 1
    /\ fs[targs.dirname].txt.data = LINE_BADTASK \o TaskLine(TASK1)
    /\ \A i \in 1..Len(calls) : calls[i][2] # "task"

\* C18: the name bytes the reader reads into buf are never more than buf
\* holds, and the padding bytes it reads into pad never more than pad holds.
C18_ReadsFitBuffers ==
    lloc.name_read <= SIZEOF_BUF /\ lloc.pad_read <= SIZEOF_PAD

\* a name of SIZEOF_BUF + 1 bytes has been read into buf
C18_Witness ==
    /\ lpc = "pad" /\ lloc.smsg.namelen = SIZEOF_BUF + 1
    /\ lloc.name_read = SIZEOF_BUF + 1 /\ Len(lloc.buf) > SIZEOF_BUF

====
